---- MODULE Spec2Model ----
(***************************************************************************)
(* Event booking REST API (Go, gin + database/sql + sqlite3).              *)
(*                                                                         *)
(* State: the events table behind the process-wide handle db.DB, the       *)
(* process-wide slice models.events, the stream of generated UUIDs, and    *)
(* the request/response of the operation served last.                      *)
(*                                                                         *)
(* Strings are TLA+ strings; "" is Go's zero string.  A time.Time is a     *)
(* name ("t1", "t2"), "" standing for the zero time.  An error value is    *)
(* its message, Nil standing for a nil error.  The storage engine answers  *)
(* every statement as SQL defines it: one statement is one atomic step.    *)
(*                                                                         *)
(* Spec is the HTTP server (the five routes of RegisterRoutes), each       *)
(* request served as one step, and setupTestDatabase, by which the route   *)
(* tests put a fresh database behind db.DB between requests.  SpecModels   *)
(* is package models called directly, the way its unit tests call it.      *)
(***************************************************************************)
EXTENDS Integers, Sequences, FiniteSets, TLC

\* ------------------------------------------------------------------ bounds
MaxUuid == 6     \* UUIDs the process may generate
MaxRows == 3     \* rows the table may hold
MaxEvents == 3   \* length the process-wide slice may reach
MaxStores == 2   \* isolated stores the tests may open

\* ------------------------------------------------------------- value sets
Nil == "nil"

\* uuid.NewString(): the n-th identifier generated by the process.  The
\* generator is collision-resistant: distinct calls give distinct strings,
\* none of them empty.
NewString(n) == "uuid-" \o ToString(n)

Uuids == {NewString(n) : n \in 1..MaxUuid}

\* ids a caller may ask for: any generated or not yet generated identifier,
\* or one that is never generated.
ReqIds == Uuids \cup {"non-existent-id"}

Users == {"test-user-123", "other-user-456"}

\* user ids GetEventsByUserId may be asked for
QueryUsers == Users \cup {"no-such-user"}

\* models.Event
Event(id, title, description, location, dateTime, userID) ==
    [ID |-> id, Title |-> title, Description |-> description,
     Location |-> location, DateTime |-> dateTime, UserID |-> userID]

\* Event{}
ZeroEvent == Event("", "", "", "", "", "")

\* JSON request bodies.  encoding/json matches the keys to the struct
\* fields without regard to case, so a body may carry every field of Event,
\* "id" and "userid" included; an absent key leaves the zero value.
\* malformed: the text is not JSON.
Body(malformed, e) == [malformed |-> malformed, fields |-> e]

NoBody == Body(FALSE, ZeroEvent)

\* the four creation fields with one of them absent
PartPayloads ==
    { Event("", "", "a", "a", "t1", ""),
      Event("", "a", "", "a", "t1", ""),
      Event("", "a", "a", "", "t1", ""),
      Event("", "a", "a", "a", "", "") }

\* a client may add "id" and "userid" keys of its own
Bodies ==
    { Body(FALSE, p) : p \in PartPayloads }
    \cup { Body(FALSE, Event("", "a", "a", "a", "t1", "")),
           Body(FALSE, Event(NewString(1), "b", "b", "b", "t2", "test-user-123")) }

\* Event values handed to Save directly
SaveEvents ==
    { Event("", "a", "a", "a", "t1", u) : u \in Users }
    \cup { Event(NewString(1), "b", "b", "b", "t2", u) : u \in Users }

\* Event values handed to Update and Delete directly
BoundEvents ==
    { Event(i, "b", "b", "b", "t2", "") : i \in ReqIds }

\* ------------------------------------------------------------ state
VARIABLES
    rows,       \* the events table, in rowid order
    events,     \* var events = []Event{} of package models
    nuuid,      \* number of UUIDs generated so far
    resp,       \* the operation served last: request and result
    fault,      \* the statement of the next operation that the store fails
    pc,         \* position of func main
    db,         \* the handle db.DB
    reqs,       \* requests being served concurrently, one per slot
    tdb,        \* the *TestDB a test holds: its DB and OriginalDB
    closed,     \* the handles on which Close() has been called
    parked,     \* the tables of the open stores db.DB does not point to
    calls       \* the GetAllEvents calls running concurrently, one per slot

vars == <<rows, events, nuuid, resp, fault, pc, db, reqs,
          tdb, closed, parked, calls>>

\* the test harness of package testutils
harness == <<tdb, closed, parked>>

\* what the sequential operations leave alone
env == <<fault, pc, db, reqs, harness, calls>>

\* ------------------------------------------------ the events table
\* CREATE TABLE events (id TEXT PRIMARY KEY, name, description, location,
\*                      datetime, user_id)

\* rows.Scan(&event.ID, &event.Title, &event.Description, &event.Location,
\*           &event.DateTime, &event.UserID) over SELECT *
Scan(row) ==
    Event(row.id, row.name, row.description, row.location, row.datetime,
          row.user_id)

RECURSIVE ScanAll(_)
ScanAll(tbl) ==
    IF tbl = <<>> THEN <<>> ELSE <<Scan(Head(tbl))>> \o ScanAll(Tail(tbl))

HasId(tbl, id) == \E i \in 1..Len(tbl) : tbl[i].id = id

WhereId(tbl, id) == SelectSeq(tbl, LAMBDA r : r.id = id)

\* ------------------------------------------------ data-access layer
\* the error of a statement the store could not run
StorageError == "sql: database is closed"

\* the error of a column value that does not fit its Event field
ScanError == "sql: Scan error"

\* Save that stores the row under the id of the Event when it has one
Save_KeepId(tbl, e, u, failed) ==
    LET k == IF e.ID # "" THEN e.ID ELSE u IN
    IF failed
    THEN [err |-> StorageError, rows |-> tbl]
    ELSE IF HasId(tbl, k)
    THEN [err |-> "UNIQUE constraint failed: events.id", rows |-> tbl]
    ELSE [err |-> Nil,
          rows |-> Append(tbl, [id |-> k, name |-> e.Title,
                                description |-> e.Description,
                                datetime |-> e.DateTime, user_id |-> e.UserID,
                                location |-> e.Location])]

\* func (e Event) Save() error, u the value of uuid.NewString() in it.
\* INSERT INTO events (id, name, description, datetime, user_id, location)
\* VALUES (u, e.Title, e.Description, e.DateTime, e.UserID, e.Location);
\* id is the primary key, so a second row with an id fails the statement.
Save(tbl, e, u, failed) ==
    IF failed
    THEN [err |-> StorageError, rows |-> tbl]
    ELSE IF HasId(tbl, u)
    THEN [err |-> "UNIQUE constraint failed: events.id", rows |-> tbl]
    ELSE [err |-> Nil,
          rows |-> Append(tbl, [id |-> u, name |-> e.Title,
                                description |-> e.Description,
                                datetime |-> e.DateTime, user_id |-> e.UserID,
                                location |-> e.Location])]

\* GetAllEvents that builds a new slice on every call
GetAllEvents_Fresh(tbl, evs, failure) ==
    IF failure = "stmt"
    THEN [err |-> StorageError, events |-> <<>>, slice |-> evs]
    ELSE IF failure = "scan" /\ tbl # <<>>
    THEN [err |-> ScanError, events |-> <<>>, slice |-> evs]
    ELSE [err |-> Nil, events |-> ScanAll(tbl), slice |-> ScanAll(tbl)]

\* func GetAllEvents() ([]Event, error): every scanned row is appended to
\* the package-level slice, and that slice is what is returned.
\* slice: the package-level slice after the call; events: the value returned.
\* failure "stmt": db.DB.Query fails; failure "scan": rows.Scan fails on the
\* last row, the rows before it having been appended.
GetAllEvents(tbl, evs, failure) ==
    IF failure = "stmt"
    THEN [err |-> StorageError, events |-> <<>>, slice |-> evs]
    ELSE IF failure = "scan" /\ tbl # <<>>
    THEN [err |-> ScanError, events |-> <<>>,
          slice |-> evs \o ScanAll(SubSeq(tbl, 1, Len(tbl) - 1))]
    ELSE [err |-> Nil, events |-> evs \o ScanAll(tbl),
          slice |-> evs \o ScanAll(tbl)]

NotFound(id) == "Couldn't find an event with the ID of" \o id

\* GetEventById that answers with the first row of the table
GetEventById_First(tbl, id, failed) ==
    IF failed \/ tbl = <<>>
    THEN [err |-> NotFound(id), event |-> ZeroEvent]
    ELSE [err |-> Nil, event |-> Scan(tbl[1])]

\* GetEventById that hands the error of the store on
GetEventById_Unfolded(tbl, id, failed) ==
    LET found == WhereId(tbl, id) IN
    IF failed
    THEN [err |-> StorageError, event |-> ZeroEvent]
    ELSE IF found = <<>>
    THEN [err |-> "sql: no rows in result set", event |-> ZeroEvent]
    ELSE IF Scan(found[1]).ID = ""
         THEN [err |-> NotFound(id), event |-> ZeroEvent]
         ELSE [err |-> Nil, event |-> Scan(found[1])]

\* func GetEventById(id string) (Event, error); failed: QueryRow or Scan
\* fails for a reason other than the absence of the row
GetEventById(tbl, id, failed) ==
    LET found == WhereId(tbl, id) IN
    IF failed \/ found = <<>>
    THEN [err |-> NotFound(id), event |-> ZeroEvent]
    ELSE IF Scan(found[1]).ID = ""
         THEN [err |-> NotFound(id), event |-> ZeroEvent]
         ELSE [err |-> Nil, event |-> Scan(found[1])]

\* GetEventsByUserId that returns every row
GetEventsByUserId_All(tbl, userId) ==
    [err |-> Nil, events |-> ScanAll(tbl)]

\* func GetEventsByUserId(userId string) ([]Event, error):
\* the rows whose user_id matches, as Event values
GetEventsByUserId(tbl, userId) ==
    [err |-> Nil,
     events |-> ScanAll(SelectSeq(tbl, LAMBDA r : r.user_id = userId))]

\* Update that also writes the user id of the Event
Update_WithUser(tbl, e, failed) ==
    IF failed
    THEN [err |-> StorageError, rows |-> tbl]
    ELSE [err |-> Nil,
          rows |-> [i \in 1..Len(tbl) |->
                      IF tbl[i].id = e.ID
                      THEN [tbl[i] EXCEPT !.name = e.Title,
                                          !.description = e.Description,
                                          !.location = e.Location,
                                          !.datetime = e.DateTime,
                                          !.user_id = e.UserID]
                      ELSE tbl[i]]]

\* func (e Event) Update() error: overwrites title, description, location
\* and date_time of the row whose id is e.ID; returns an error on failure
Update(tbl, e, failed) ==
    IF failed
    THEN [err |-> StorageError, rows |-> tbl]
    ELSE [err |-> Nil,
          rows |-> [i \in 1..Len(tbl) |->
                      IF tbl[i].id = e.ID
                      THEN [tbl[i] EXCEPT !.name = e.Title,
                                          !.description = e.Description,
                                          !.location = e.Location,
                                          !.datetime = e.DateTime]
                      ELSE tbl[i]]]

\* func (e Event) Delete() error: removes the row whose id is e.ID;
\* returns an error on failure
Delete(tbl, e, failed) ==
    IF failed
    THEN [err |-> StorageError, rows |-> tbl]
    ELSE [err |-> Nil, rows |-> SelectSeq(tbl, LAMBDA r : r.id # e.ID)]

\* ------------------------------------------------ request binding
Required(e) ==
    e.Title # "" /\ e.Description # "" /\ e.Location # "" /\ e.DateTime # ""

\* binding without the required tag on Location
ShouldBindJSON_LocationOptional(body) ==
    IF body.malformed
    THEN [err |-> "invalid character", event |-> ZeroEvent]
    ELSE IF body.fields.Title # "" /\ body.fields.Description # ""
            /\ body.fields.DateTime # ""
         THEN [err |-> Nil, event |-> body.fields]
         ELSE [err |-> "failed on the 'required' tag", event |-> body.fields]

\* context.ShouldBindJSON(&newEvent): decodes the body onto an Event and
\* validates the fields tagged binding:"required" (a zero value fails)
ShouldBindJSON(body) ==
    IF body.malformed
    THEN [err |-> "invalid character", event |-> ZeroEvent]
    ELSE IF Required(body.fields)
         THEN [err |-> Nil, event |-> body.fields]
         ELSE [err |-> "failed on the 'required' tag", event |-> body.fields]

\* ------------------------------------------------ HTTP
StatusOK == 200
StatusCreated == 201
StatusFound == 302
StatusBadRequest == 400
StatusNotFound == 404
StatusInternalServerError == 500

\* what the operation served last was asked and what it answered.
\* op: the handler or data-access function; id: the :id parameter (or the
\* id or userId argument); body: the request body (or the Event argument);
\* status: the HTTP status (0 for a data-access call); keys: the keys of the
\* JSON answer; error: the error (Nil for none); event, events: the result.
Resp(op, id, body, status, keys, error, event, evs) ==
    [op |-> op, id |-> id, body |-> body, status |-> status, keys |-> keys,
     error |-> error, event |-> event, events |-> evs]

\* concurrent requests: Slots requests may be in service at once
Slots == {1, 2}

\* a slot: the handler (op), the :id parameter, the body, the position of
\* the handler (pc), the Event it holds (event), the answer it is about to
\* write (status, error), and the slots whose write statement ran before
\* its own (after)
Slot(op, id, body, at, event, status, error, after) ==
    [op |-> op, id |-> id, body |-> body, pc |-> at, event |-> event,
     status |-> status, error |-> error, after |-> after]

Idle == Slot("none", "", NoBody, "idle", ZeroEvent, 0, Nil, {})

\* testutils.TestDB: the handle of the isolated store and the handle db.DB
\* held before
TestDB(testDB, originalDB) == [DB |-> testDB, OriginalDB |-> originalDB]

\* no test holds a *TestDB
NoTestDB == TestDB(Nil, Nil)

\* a GetAllEvents call in service: its position (pc), the result set of its
\* query (result), the rows it has read (n), the Event scanned last (event)
\* and the value of the process-wide slice it loaded for append (held)
Call(at, result, n, event, held) ==
    [pc |-> at, result |-> result, n |-> n, event |-> event, held |-> held]

IdleCall == Call("idle", <<>>, 0, ZeroEvent, <<>>)

\* the server is listening: server.Run has been reached
Serving == pc = "serving"

\* the process once main has reached server.Run over an empty table
Init ==
    /\ rows = <<>>
    /\ events = <<>>
    /\ nuuid = 0
    /\ resp = Resp("none", "", NoBody, 0, {}, Nil, ZeroEvent, <<>>)
    /\ fault = "none"
    /\ pc = "serving"
    /\ db = "ready"
    /\ reqs = [s \in Slots |-> Idle]
    /\ tdb = NoTestDB
    /\ closed = {}
    /\ parked = <<>>
    /\ calls = [s \in Slots |-> IdleCall]

\* ------------------------------------------------ handlers
\* GET /events
getEvents ==
    /\ Serving
    /\ UNCHANGED env
    /\ /\ Len(events) + Len(rows) <= MaxEvents
       /\ LET r == GetAllEvents(rows, events, fault) IN
            /\ events' = r.slice
            /\ resp' = IF r.err # Nil
                       THEN Resp("getEvents", "", NoBody, StatusInternalServerError,
                                 {"error", "where"}, r.err, ZeroEvent, <<>>)
                       ELSE Resp("getEvents", "", NoBody, StatusOK,
                                 {"events"}, Nil, ZeroEvent, r.events)
       /\ UNCHANGED <<rows, nuuid>>

\* GET /events/:id
getEvent(id) ==
    /\ Serving
    /\ UNCHANGED env
    /\ /\ LET r == GetEventById(rows, id, fault = "lookup") IN
            resp' = IF r.err # Nil
                    THEN Resp("getEvent", id, NoBody, StatusNotFound,
                              {"error"}, r.err, ZeroEvent, <<>>)
                    ELSE Resp("getEvent", id, NoBody, StatusFound,
                              {"event"}, Nil, r.event, <<>>)
       /\ UNCHANGED <<rows, events, nuuid>>

\* createEvent without "newEvent.UserID = uuid.NewString()": the user id
\* of the body is kept
createEvent_KeepUserID(body) ==
    /\ Serving
    /\ UNCHANGED env
    /\ LET b == ShouldBindJSON(body) IN
       IF b.err # Nil
       THEN /\ resp' = Resp("createEvent", "", body, StatusBadRequest,
                            {"message", "error"}, b.err, ZeroEvent, <<>>)
            /\ UNCHANGED <<rows, events, nuuid>>
       ELSE /\ nuuid + 3 <= MaxUuid
            /\ Len(rows) < MaxRows
            /\ LET newEvent == [b.event EXCEPT !.ID = NewString(nuuid + 1)]
                   s == Save(rows, newEvent, NewString(nuuid + 3),
                             fault = "stmt")
               IN  /\ nuuid' = nuuid + 3
                   /\ rows' = s.rows
                   /\ resp' = IF s.err # Nil
                              THEN Resp("createEvent", "", body, StatusBadRequest,
                                        {"message", "error"}, s.err, ZeroEvent, <<>>)
                              ELSE Resp("createEvent", "", body, StatusCreated,
                                        {"message", "event"}, Nil, newEvent, <<>>)
                   /\ UNCHANGED events

\* POST /event
createEvent(body) ==
    /\ Serving
    /\ UNCHANGED env
    /\ LET b == ShouldBindJSON(body) IN
       IF b.err # Nil
       THEN /\ resp' = Resp("createEvent", "", body, StatusBadRequest,
                            {"message", "error"}, b.err, ZeroEvent, <<>>)
            /\ UNCHANGED <<rows, events, nuuid>>
       ELSE /\ nuuid + 3 <= MaxUuid
            /\ Len(rows) < MaxRows
            /\ LET newEvent == [b.event EXCEPT !.ID = NewString(nuuid + 1),
                                               !.UserID = NewString(nuuid + 2)]
                   s == Save(rows, newEvent, NewString(nuuid + 3),
                             fault = "stmt")
               IN  /\ nuuid' = nuuid + 3
                   /\ rows' = s.rows
                   /\ resp' = IF s.err # Nil
                              THEN Resp("createEvent", "", body, StatusBadRequest,
                                        {"message", "error"}, s.err, ZeroEvent, <<>>)
                              ELSE Resp("createEvent", "", body, StatusCreated,
                                        {"message", "event"}, Nil, newEvent, <<>>)
                   /\ UNCHANGED events

\* updateEvent without "updatedEvent.ID = event.ID": Update runs with the
\* id the body carries
updateEvent_NoForceId(id, body) ==
    /\ Serving
    /\ UNCHANGED env
    /\ LET found == GetEventById(rows, id, fault = "lookup") IN
       IF found.err # Nil
       THEN /\ resp' = Resp("updateEvent", id, body, StatusNotFound,
                            {"error"}, found.err, ZeroEvent, <<>>)
            /\ UNCHANGED <<rows, events, nuuid>>
       ELSE LET b == ShouldBindJSON(body) IN
            IF b.err # Nil
            THEN /\ resp' = Resp("updateEvent", id, body, StatusBadRequest,
                                 {"error"}, b.err, ZeroEvent, <<>>)
                 /\ UNCHANGED <<rows, events, nuuid>>
            ELSE LET u == Update(rows, b.event, fault = "stmt")
                 IN  /\ rows' = u.rows
                     /\ resp' = Resp("updateEvent", id, body, StatusOK,
                                     {"message", "event"}, Nil, b.event, <<>>)
                     /\ UNCHANGED <<events, nuuid>>

\* updateEvent that drops the error of GetEventById
updateEvent_IgnoreNotFound(id, body) ==
    /\ Serving
    /\ UNCHANGED env
    /\ LET found == GetEventById(rows, id, fault = "lookup")
           b == ShouldBindJSON(body)
       IN  IF b.err # Nil
           THEN /\ resp' = Resp("updateEvent", id, body, StatusBadRequest,
                                {"error"}, b.err, ZeroEvent, <<>>)
                /\ UNCHANGED <<rows, events, nuuid>>
           ELSE LET updatedEvent == [b.event EXCEPT !.ID = found.event.ID]
                    u == Update(rows, updatedEvent, fault = "stmt")
                IN  /\ rows' = u.rows
                    /\ resp' = Resp("updateEvent", id, body, StatusOK,
                                    {"message", "event"}, Nil, updatedEvent, <<>>)
                    /\ UNCHANGED <<events, nuuid>>

\* updateEvent that replaces the row: deletes it and saves the new values
updateEvent_Recreate(id, body) ==
    /\ Serving
    /\ UNCHANGED env
    /\ LET found == GetEventById(rows, id, fault = "lookup") IN
       IF found.err # Nil
       THEN /\ resp' = Resp("updateEvent", id, body, StatusNotFound,
                            {"error"}, found.err, ZeroEvent, <<>>)
            /\ UNCHANGED <<rows, events, nuuid>>
       ELSE LET b == ShouldBindJSON(body) IN
            IF b.err # Nil
            THEN /\ resp' = Resp("updateEvent", id, body, StatusBadRequest,
                                 {"error"}, b.err, ZeroEvent, <<>>)
                 /\ UNCHANGED <<rows, events, nuuid>>
            ELSE /\ nuuid + 1 <= MaxUuid
                 /\ LET updatedEvent == [b.event EXCEPT !.ID = found.event.ID]
                        s == Save(Delete(rows, found.event, FALSE).rows,
                                  updatedEvent, NewString(nuuid + 1), FALSE)
                    IN  /\ rows' = s.rows
                        /\ nuuid' = nuuid + 1
                        /\ resp' = Resp("updateEvent", id, body, StatusOK,
                                        {"message", "event"}, Nil,
                                        updatedEvent, <<>>)
                        /\ UNCHANGED events

\* updateEvent that binds the body before it looks the id up
updateEvent_BindFirst(id, body) ==
    /\ Serving
    /\ UNCHANGED env
    /\ LET b == ShouldBindJSON(body) IN
       IF b.err # Nil
       THEN /\ resp' = Resp("updateEvent", id, body, StatusBadRequest,
                            {"error"}, b.err, ZeroEvent, <<>>)
            /\ UNCHANGED <<rows, events, nuuid>>
       ELSE LET found == GetEventById(rows, id, fault = "lookup") IN
            IF found.err # Nil
            THEN /\ resp' = Resp("updateEvent", id, body, StatusNotFound,
                                 {"error"}, found.err, ZeroEvent, <<>>)
                 /\ UNCHANGED <<rows, events, nuuid>>
            ELSE LET updatedEvent == [b.event EXCEPT !.ID = found.event.ID]
                     u == Update(rows, updatedEvent, fault = "stmt")
                 IN  /\ rows' = u.rows
                     /\ resp' = Resp("updateEvent", id, body, StatusOK,
                                     {"message", "event"}, Nil,
                                     updatedEvent, <<>>)
                     /\ UNCHANGED <<events, nuuid>>

\* PUT /events/:id
updateEvent(id, body) ==
    /\ Serving
    /\ UNCHANGED env
    /\ LET found == GetEventById(rows, id, fault = "lookup") IN
       IF found.err # Nil
       THEN /\ resp' = Resp("updateEvent", id, body, StatusNotFound,
                            {"error"}, found.err, ZeroEvent, <<>>)
            /\ UNCHANGED <<rows, events, nuuid>>
       ELSE LET b == ShouldBindJSON(body) IN
            IF b.err # Nil
            THEN /\ resp' = Resp("updateEvent", id, body, StatusBadRequest,
                                 {"error"}, b.err, ZeroEvent, <<>>)
                 /\ UNCHANGED <<rows, events, nuuid>>
            ELSE LET updatedEvent == [b.event EXCEPT !.ID = found.event.ID]
                     u == Update(rows, updatedEvent, fault = "stmt")
                 IN  /\ rows' = u.rows
                     /\ resp' = IF u.err # Nil
                                THEN Resp("updateEvent", id, body,
                                          StatusInternalServerError,
                                          {"error"}, u.err, ZeroEvent, <<>>)
                                ELSE Resp("updateEvent", id, body, StatusOK,
                                          {"message", "event"}, Nil,
                                          updatedEvent, <<>>)
                     /\ UNCHANGED <<events, nuuid>>

\* deleteEvent that calls Delete on a fresh Event instead of the one found
deleteEvent_ZeroEvent(id) ==
    /\ Serving
    /\ UNCHANGED env
    /\ LET found == GetEventById(rows, id, fault = "lookup") IN
       IF found.err # Nil
       THEN /\ resp' = Resp("deleteEvent", id, NoBody, StatusNotFound,
                            {"error"}, found.err, ZeroEvent, <<>>)
            /\ UNCHANGED <<rows, events, nuuid>>
       ELSE LET d == Delete(rows, ZeroEvent, fault = "stmt") IN
            /\ rows' = d.rows
            /\ resp' = Resp("deleteEvent", id, NoBody, StatusOK,
                            {"message"}, Nil, ZeroEvent, <<>>)
            /\ UNCHANGED <<events, nuuid>>

\* deleteEvent that drops the error of Delete
deleteEvent_IgnoreError(id) ==
    /\ Serving
    /\ UNCHANGED env
    /\ LET found == GetEventById(rows, id, fault = "lookup") IN
       IF found.err # Nil
       THEN /\ resp' = Resp("deleteEvent", id, NoBody, StatusNotFound,
                            {"error"}, found.err, ZeroEvent, <<>>)
            /\ UNCHANGED <<rows, events, nuuid>>
       ELSE LET d == Delete(rows, found.event, fault = "stmt") IN
            /\ rows' = d.rows
            /\ resp' = Resp("deleteEvent", id, NoBody, StatusOK,
                            {"message"}, Nil, ZeroEvent, <<>>)
            /\ UNCHANGED <<events, nuuid>>

\* DELETE /events/:id
deleteEvent(id) ==
    /\ Serving
    /\ UNCHANGED env
    /\ LET found == GetEventById(rows, id, fault = "lookup") IN
       IF found.err # Nil
       THEN /\ resp' = Resp("deleteEvent", id, NoBody, StatusNotFound,
                            {"error"}, found.err, ZeroEvent, <<>>)
            /\ UNCHANGED <<rows, events, nuuid>>
       ELSE LET d == Delete(rows, found.event, fault = "stmt") IN
            /\ rows' = d.rows
            /\ resp' = IF d.err # Nil
                       THEN Resp("deleteEvent", id, NoBody,
                                 StatusInternalServerError,
                                 {"error"}, d.err, ZeroEvent, <<>>)
                       ELSE Resp("deleteEvent", id, NoBody, StatusOK,
                                 {"message"}, Nil, ZeroEvent, <<>>)
            /\ UNCHANGED <<events, nuuid>>

\* ------------------------------------------------ data-access calls
\* event.Save()
CallSave(e) ==
    /\ UNCHANGED env
    /\ /\ nuuid + 1 <= MaxUuid
       /\ Len(rows) < MaxRows
       /\ LET s == Save(rows, e, NewString(nuuid + 1), fault = "stmt") IN
            /\ nuuid' = nuuid + 1
            /\ rows' = s.rows
            /\ resp' = Resp("Save", "", Body(FALSE, e), 0, {}, s.err,
                            ZeroEvent, <<>>)
       /\ UNCHANGED events

\* event.Update()
CallUpdate(e) ==
    /\ UNCHANGED env
    /\ /\ LET u == Update(rows, e, fault = "stmt") IN
            /\ rows' = u.rows
            /\ resp' = Resp("Update", e.ID, Body(FALSE, e), 0, {}, u.err,
                            ZeroEvent, <<>>)
       /\ UNCHANGED <<events, nuuid>>

\* event.Delete()
CallDelete(e) ==
    /\ UNCHANGED env
    /\ /\ LET d == Delete(rows, e, fault = "stmt") IN
            /\ rows' = d.rows
            /\ resp' = Resp("Delete", e.ID, Body(FALSE, e), 0, {}, d.err,
                            ZeroEvent, <<>>)
       /\ UNCHANGED <<events, nuuid>>

\* GetEventsByUserId(userId)
CallGetEventsByUserId(userId) ==
    /\ UNCHANGED env
    /\ /\ LET r == GetEventsByUserId(rows, userId) IN
            resp' = Resp("GetEventsByUserId", userId, NoBody, 0, {}, r.err,
                         ZeroEvent, r.events)
       /\ UNCHANGED <<rows, events, nuuid>>

\* setupTestDatabase(t) of the route tests, from one test to the next: the
\* t.Cleanup of the test that ends puts originalDB back and closes its
\* store, and the test that starts puts a fresh in-memory database behind
\* db.DB.  The handlers then see an empty events table; the process, its
\* slice and its UUID stream go on.
setupTestDatabase ==
    /\ UNCHANGED env
    /\ /\ rows' = <<>>
       /\ resp' = Resp("setupTestDatabase", "", NoBody, 0, {}, Nil, ZeroEvent, <<>>)
       /\ UNCHANGED <<events, nuuid>>

\* ------------------------------------------------ specifications
\* the HTTP server: routes.RegisterRoutes
Next ==
    \/ getEvents
    \/ \E id \in ReqIds : getEvent(id)
    \/ \E body \in Bodies : createEvent(body)
    \/ \E id \in ReqIds, body \in Bodies : updateEvent(id, body)
    \/ \E id \in ReqIds : deleteEvent(id)
    \/ setupTestDatabase

Spec == Init /\ [][Next]_vars

\* package models, called directly
NextModels ==
    \/ \E e \in SaveEvents : CallSave(e)
    \/ \E e \in BoundEvents : CallUpdate(e)
    \/ \E e \in BoundEvents : CallDelete(e)
    \/ \E userId \in QueryUsers : CallGetEventsByUserId(userId)

SpecModels == Init /\ [][NextModels]_vars

\* ------------------------------------------------ a store that may fail
\* which statement of a request the store fails: none, the lookup of
\* GetEventById, the statement that writes or lists, the Scan of a listed row
Faults == {"none", "lookup", "stmt", "scan"}

FaultBodies ==
    { Body(FALSE, Event("", "a", "a", "a", "t1", "")),
      Body(FALSE, Event("", "", "b", "b", "t2", "")) }

\* the condition of the store changes
StoreFault(f) ==
    /\ f # fault
    /\ fault' = f
    /\ UNCHANGED <<rows, events, nuuid, resp, pc, db, reqs>>
    /\ UNCHANGED <<harness, calls>>

\* the HTTP server over a store that may fail any statement
NextFaults ==
    \/ \E f \in Faults : StoreFault(f)
    \/ getEvents
    \/ \E id \in ReqIds : getEvent(id)
    \/ \E body \in FaultBodies : createEvent(body)
    \/ \E id \in ReqIds, body \in FaultBodies : updateEvent(id, body)
    \/ \E id \in ReqIds : deleteEvent(id)

SpecFaults == Init /\ [][NextFaults]_vars

\* ------------------------------------------------ concurrent requests
\* gin serves every request on a goroutine of its own, so the statements of
\* two handlers interleave.  A PUT or DELETE is served in three steps: the
\* lookup (with the binding, which touches no shared state), the statement
\* that writes, and the answer.
ConcIds == {NewString(3), "non-existent-id"}

ConcBodies ==
    { Body(FALSE, Event("", "b", "b", "b", "t2", "")),
      Body(FALSE, Event("", "", "b", "b", "t2", "")) }

\* the slot's statement has run and its answer is not written yet
Executed(s) ==
    /\ reqs[s].pc = "respond"
    /\ reqs[s].status \in {StatusOK, StatusInternalServerError}

\* id, _ := c.Params.Get("id"); event, err := models.GetEventById(id); for a
\* PUT also err = c.ShouldBindJSON(&updatedEvent); updatedEvent.ID = event.ID
HandlerLookup(s, op, id, body) ==
    /\ Serving
    /\ reqs[s].pc = "idle"
    /\ LET found == GetEventById(rows, id, fault = "lookup")
           b == ShouldBindJSON(body)
       IN  reqs' = [reqs EXCEPT ![s] =
             IF found.err # Nil
             THEN Slot(op, id, body, "respond", ZeroEvent, StatusNotFound,
                       found.err, {})
             ELSE IF op = "deleteEvent"
             THEN Slot(op, id, body, "statement", found.event, 0, Nil, {})
             ELSE IF b.err # Nil
             THEN Slot(op, id, body, "respond", ZeroEvent, StatusBadRequest,
                       b.err, {})
             ELSE Slot(op, id, body, "statement",
                       [b.event EXCEPT !.ID = found.event.ID], 0, Nil, {})]
    /\ UNCHANGED <<rows, events, nuuid, resp, fault, pc, db>>
    /\ UNCHANGED <<harness, calls>>

\* the statement of a slot that deletes a fresh Event instead of the one found
HandlerStatement_ZeroEvent(s) ==
    /\ reqs[s].pc = "statement"
    /\ LET w == IF reqs[s].op = "deleteEvent"
                THEN Delete(rows, ZeroEvent, fault = "stmt")
                ELSE Update(rows, reqs[s].event, fault = "stmt")
       IN  /\ rows' = w.rows
           /\ reqs' = [reqs EXCEPT ![s] =
                 [@ EXCEPT !.pc = "respond",
                           !.status = IF w.err # Nil
                                      THEN StatusInternalServerError
                                      ELSE StatusOK,
                           !.error = w.err,
                           !.after = {t \in Slots : Executed(t)}]]
    /\ UNCHANGED <<events, nuuid, resp, fault, pc, db>>
    /\ UNCHANGED <<harness, calls>>

\* the statement of a slot whose PUT writes the row back when none matches
\* (INSERT OR REPLACE in place of UPDATE)
HandlerStatement_Upsert(s) ==
    /\ reqs[s].pc = "statement"
    /\ LET e == reqs[s].event
           w == IF reqs[s].op = "deleteEvent"
                THEN Delete(rows, e, fault = "stmt")
                ELSE IF HasId(rows, e.ID)
                THEN Update(rows, e, fault = "stmt")
                ELSE [err |-> Nil,
                      rows |-> Append(rows,
                                 [id |-> e.ID, name |-> e.Title,
                                  description |-> e.Description,
                                  location |-> e.Location,
                                  datetime |-> e.DateTime,
                                  user_id |-> e.UserID])]
       IN  /\ rows' = w.rows
           /\ reqs' = [reqs EXCEPT ![s] =
                 [@ EXCEPT !.pc = "respond",
                           !.status = IF w.err # Nil
                                      THEN StatusInternalServerError
                                      ELSE StatusOK,
                           !.error = w.err,
                           !.after = {t \in Slots : Executed(t)}]]
    /\ UNCHANGED <<events, nuuid, resp, fault, pc, db>>
    /\ UNCHANGED <<harness, calls>>

\* err = updatedEvent.Update() of a PUT, err = event.Delete() of a DELETE
HandlerStatement(s) ==
    /\ reqs[s].pc = "statement"
    /\ LET w == IF reqs[s].op = "deleteEvent"
                THEN Delete(rows, reqs[s].event, fault = "stmt")
                ELSE Update(rows, reqs[s].event, fault = "stmt")
       IN  /\ rows' = w.rows
           /\ reqs' = [reqs EXCEPT ![s] =
                 [@ EXCEPT !.pc = "respond",
                           !.status = IF w.err # Nil
                                      THEN StatusInternalServerError
                                      ELSE StatusOK,
                           !.error = w.err,
                           !.after = {t \in Slots : Executed(t)}]]
    /\ UNCHANGED <<events, nuuid, resp, fault, pc, db>>
    /\ UNCHANGED <<harness, calls>>

\* c.JSON(status, ...): the answer is written and the request is over
HandlerRespond(s) ==
    /\ reqs[s].pc = "respond"
    /\ LET r == reqs[s]
           ok == r.status = StatusOK
       IN  resp' = Resp(r.op, r.id, r.body, r.status,
                        IF ~ok THEN {"error"}
                        ELSE IF r.op = "updateEvent" THEN {"message", "event"}
                        ELSE {"message"},
                        r.error,
                        IF ok /\ r.op = "updateEvent" THEN r.event
                        ELSE ZeroEvent,
                        <<>>)
    /\ reqs' = [t \in Slots |->
                  IF t = s THEN Idle
                  ELSE [reqs[t] EXCEPT !.after = @ \ {s}]]
    /\ UNCHANGED <<rows, events, nuuid, fault, pc, db>>
    /\ UNCHANGED <<harness, calls>>

\* the HTTP server with PUT and DELETE requests in service at once
NextConc ==
    \/ createEvent(Body(FALSE, Event("", "a", "a", "a", "t1", "")))
    \/ \E s \in Slots, id \in ConcIds, body \in ConcBodies :
         HandlerLookup(s, "updateEvent", id, body)
    \/ \E s \in Slots, id \in ConcIds :
         HandlerLookup(s, "deleteEvent", id, NoBody)
    \/ \E s \in Slots : HandlerStatement(s)
    \/ \E s \in Slots : HandlerRespond(s)

SpecConc == Init /\ [][NextConc]_vars

\* ------------------------------------------------ func main
\* the process at the entry of main: no handle, no server
InitMain ==
    /\ rows = <<>>
    /\ events = <<>>
    /\ nuuid = 0
    /\ resp = Resp("none", "", NoBody, 0, {}, Nil, ZeroEvent, <<>>)
    /\ fault = "none"
    /\ pc = "start"
    /\ db = "nil"
    /\ reqs = [s \in Slots |-> Idle]
    /\ tdb = NoTestDB
    /\ closed = {}
    /\ parked = <<>>
    /\ calls = [s \in Slots |-> IdleCall]

\* InitDB that logs the failure and returns
InitDB_NoFatal(opened, created) ==
    /\ pc = "start"
    /\ pc' = "initialized"
    /\ db' = IF ~opened THEN "nil" ELSE IF ~created THEN "open" ELSE "ready"
    /\ UNCHANGED <<rows, events, nuuid, resp, fault, reqs>>
    /\ UNCHANGED <<harness, calls>>

\* db.InitDB(): DB, err = sql.Open(...), then createTables().  opened: Open
\* succeeds; created: CREATE TABLE IF NOT EXISTS succeeds.  log.Fatal ends
\* the process.
InitDB(opened, created) ==
    /\ pc = "start"
    /\ IF ~opened
       THEN db' = "nil" /\ pc' = "exited"
       ELSE IF ~created
       THEN db' = "open" /\ pc' = "exited"
       ELSE db' = "ready" /\ pc' = "initialized"
    /\ UNCHANGED <<rows, events, nuuid, resp, fault, reqs>>
    /\ UNCHANGED <<harness, calls>>

\* server := gin.Default()
Default ==
    /\ pc = "initialized"
    /\ pc' = "built"
    /\ UNCHANGED <<rows, events, nuuid, resp, fault, db, reqs>>
    /\ UNCHANGED <<harness, calls>>

\* routes.RegisterRoutes(server)
RegisterRoutes ==
    /\ pc = "built"
    /\ pc' = "registered"
    /\ UNCHANGED <<rows, events, nuuid, resp, fault, db, reqs>>
    /\ UNCHANGED <<harness, calls>>

\* server.Run(":8080"): the server listens and serves, or Run returns an
\* error that main drops, and main returns
Run(listening) ==
    /\ pc = "registered"
    /\ pc' = IF listening THEN "serving" ELSE "exited"
    /\ UNCHANGED <<rows, events, nuuid, resp, fault, db, reqs>>
    /\ UNCHANGED <<harness, calls>>

\* main, and the requests the server it starts is sent
NextMain ==
    \/ \E opened, created \in BOOLEAN : InitDB(opened, created)
    \/ Default
    \/ RegisterRoutes
    \/ \E listening \in BOOLEAN : Run(listening)
    \/ getEvents
    \/ \E id \in ConcIds : getEvent(id)
    \/ createEvent(Body(FALSE, Event("", "a", "a", "a", "t1", "")))
    \/ \E id \in ConcIds, body \in ConcBodies : updateEvent(id, body)
    \/ \E id \in ConcIds : deleteEvent(id)

SpecMain == InitMain /\ [][NextMain]_vars

\* ------------------------------------------------ the test harness
\* package testutils: a test puts an isolated store behind db.DB with
\* SetupTestDatabase, runs package models against it, and ends with Cleanup.
\* The test binary never runs main: db.DB is nil unless the process has set
\* it before.

\* sql.Open("sqlite3", ":memory:"): the n-th isolated store of the process
TestStore(n) == "test-" \o ToString(n)

\* the isolated stores opened so far
Opened == ({db} \cup DOMAIN parked \cup closed) \ {Nil, "ready"}

\* the test process before its first test, for either value of db.DB
InitTests ==
    /\ rows = <<>>
    /\ events = <<>>
    /\ nuuid = 0
    /\ resp = Resp("none", "", NoBody, 0, {}, Nil, ZeroEvent, <<>>)
    /\ fault = "none"
    /\ pc = "testing"
    /\ db \in {Nil, "ready"}
    /\ reqs = [s \in Slots |-> Idle]
    /\ tdb = NoTestDB
    /\ closed = {}
    /\ parked = <<>>
    /\ calls = [s \in Slots |-> IdleCall]

\* SetupTestDatabase(t).  created: sql.Open and CREATE TABLE succeed;
\* otherwise t.Fatalf ends the test before db.DB is touched.
\* originalDB := db.DB; db.DB = testDB; return &TestDB{testDB, originalDB}
SetupTestDatabase(created) ==
    /\ pc = "testing"
    /\ tdb = NoTestDB
    /\ Cardinality(Opened) < MaxStores
    /\ IF ~created
       THEN /\ resp' = Resp("SetupTestDatabase", "", NoBody, 0, {},
                            "Failed to create test table", ZeroEvent, <<>>)
            /\ UNCHANGED <<rows, db, harness>>
       ELSE LET testDB == TestStore(Cardinality(Opened) + 1) IN
            /\ tdb' = TestDB(testDB, db)
            /\ db' = testDB
            /\ parked' = IF db # Nil /\ db \notin closed
                          THEN (db :> rows) @@ parked
                          ELSE parked
            /\ rows' = <<>>
            /\ resp' = Resp("SetupTestDatabase", "", NoBody, 0, {}, Nil,
                            ZeroEvent, <<>>)
            /\ UNCHANGED closed
    /\ UNCHANGED <<events, nuuid, fault, pc, reqs, calls>>

\* tdb.Cleanup(): if tdb.OriginalDB != nil { db.DB = tdb.OriginalDB };
\* if tdb.DB != nil { tdb.DB.Close() }.  Closing an in-memory store drops
\* its table.
Cleanup ==
    /\ pc = "testing"
    /\ tdb # NoTestDB
    /\ LET handle == IF tdb.OriginalDB # Nil THEN tdb.OriginalDB ELSE db
           shut == IF tdb.DB # Nil THEN closed \cup {tdb.DB} ELSE closed
       IN  /\ db' = handle
           /\ closed' = shut
           /\ rows' = IF handle \in DOMAIN parked THEN parked[handle]
                       ELSE IF handle = Nil \/ handle \in shut THEN <<>>
                       ELSE rows
           /\ parked' = [h \in DOMAIN parked \ {handle} |-> parked[h]]
    /\ tdb' = NoTestDB
    /\ resp' = Resp("Cleanup", "", NoBody, 0, {}, Nil, ZeroEvent, <<>>)
    /\ UNCHANGED <<events, nuuid, fault, pc, reqs, calls>>

\* event.Save() called by a test, through whatever db.DB holds:
\* db.DB.Prepare(q) dereferences a nil handle (the process panics) and
\* fails on a closed one before any UUID is generated
TestSave(e) ==
    /\ pc = "testing"
    /\ nuuid + 1 <= MaxUuid
    /\ Len(rows) < MaxRows
    /\ IF db = Nil
       THEN /\ pc' = "exited"
            /\ resp' = Resp("Save", "", Body(FALSE, e), 0, {},
                            "invalid memory address or nil pointer dereference",
                            ZeroEvent, <<>>)
            /\ UNCHANGED <<rows, nuuid>>
       ELSE LET s == Save(rows, e, NewString(nuuid + 1), db \in closed) IN
            /\ nuuid' = IF db \in closed THEN nuuid ELSE nuuid + 1
            /\ rows' = s.rows
            /\ resp' = Resp("Save", "", Body(FALSE, e), 0, {}, s.err,
                            ZeroEvent, <<>>)
            /\ UNCHANGED pc
    /\ UNCHANGED <<events, fault, db, reqs, harness, calls>>

\* the tests of a package that use testutils, one after the other
NextTests ==
    \/ \E created \in BOOLEAN : SetupTestDatabase(created)
    \/ Cleanup
    \/ \E u \in Users : TestSave(Event("", "a", "a", "a", "t1", u))

SpecTests == InitTests /\ [][NextTests]_vars

\* ------------------------------------------------ concurrent list requests
\* GET /events requests served at once, each on a goroutine of its own.
\* GetAllEvents takes no lock: events = append(events, event) loads the
\* process-wide slice, builds the longer one and stores it, and another call
\* may run between the load and the store.  When the two calls share the
\* backing array the element at the stored position is the one written
\* last, by either call.

\* the events table after k requests to createEvent, each drawing three
\* UUIDs: the Event's ID, its UserID, and the id Save inserts under
ListTable(k) ==
    [i \in 1..k |->
       [id |-> NewString(3 * i), name |-> "a", description |-> "a",
        datetime |-> "t1", user_id |-> NewString(3 * i - 1),
        location |-> "a"]]

\* the server listening over a table of up to MaxRows events, none listed yet
InitList ==
    /\ rows \in {ListTable(k) : k \in 0..MaxRows}
    /\ events = <<>>
    /\ nuuid = 3 * Len(rows)
    /\ resp = Resp("none", "", NoBody, 0, {}, Nil, ZeroEvent, <<>>)
    /\ fault = "none"
    /\ pc = "serving"
    /\ db = "ready"
    /\ reqs = [s \in Slots |-> Idle]
    /\ tdb = NoTestDB
    /\ closed = {}
    /\ parked = <<>>
    /\ calls = [s \in Slots |-> IdleCall]

\* rows, err := db.DB.Query(q)
ListQuery(s) ==
    /\ Serving
    /\ calls[s].pc = "idle"
    /\ calls' = [calls EXCEPT ![s] = Call("next", rows, 0, ZeroEvent, <<>>)]
    /\ UNCHANGED <<rows, events, nuuid, resp, fault, pc, db, reqs, harness>>

\* rows.Next() is true; rows.Scan(&event.ID, ...); and append(events, event)
\* loads the process-wide slice
ListScan(s) ==
    /\ calls[s].pc = "next"
    /\ calls[s].n < Len(calls[s].result)
    /\ calls' = [calls EXCEPT ![s] =
                   Call("append", @.result, @.n + 1,
                        Scan(@.result[@.n + 1]), events)]
    /\ UNCHANGED <<rows, events, nuuid, resp, fault, pc, db, reqs, harness>>

\* events = append(events, event): the slice that was loaded, one longer, is
\* stored
ListAppend(s) ==
    /\ calls[s].pc = "append"
    /\ LET held == calls[s].held
           written == {calls[s].event}
                      \cup (IF Len(events) > Len(held)
                            THEN {events[Len(held) + 1]} ELSE {})
       IN  \E e \in written : events' = Append(held, e)
    /\ calls' = [calls EXCEPT ![s].pc = "next"]
    /\ UNCHANGED <<rows, nuuid, resp, fault, pc, db, reqs, harness>>

\* rows.Next() is false; return events, nil; c.JSON(http.StatusOK, events)
ListReturn(s) ==
    /\ calls[s].pc = "next"
    /\ calls[s].n = Len(calls[s].result)
    /\ resp' = Resp("getEvents", "", NoBody, StatusOK, {"events"}, Nil,
                    ZeroEvent, events)
    /\ calls' = [calls EXCEPT ![s].pc = "done"]
    /\ UNCHANGED <<rows, events, nuuid, fault, pc, db, reqs, harness>>

\* the HTTP server with GET /events requests in service at once
NextList ==
    \/ \E s \in Slots : ListQuery(s)
    \/ \E s \in Slots : ListScan(s)
    \/ \E s \in Slots : ListAppend(s)
    \/ \E s \in Slots : ListReturn(s)

SpecList == InitList /\ [][NextList]_vars

\* ------------------------------------------------ properties
SameAsRow(e, r) ==
    /\ e.ID = r.id
    /\ e.Title = r.name
    /\ e.Description = r.description
    /\ e.Location = r.location
    /\ e.DateTime = r.datetime
    /\ e.UserID = r.user_id

CountId(tbl, id) == Cardinality({i \in 1..Len(tbl) : tbl[i].id = id})

IdsOf(tbl) == [i \in 1..Len(tbl) |-> tbl[i].id]

LacksField(e) ==
    e.Title = "" \/ e.Description = "" \/ e.Location = "" \/ e.DateTime = ""

DistinctTitles(tbl) ==
    \A i, j \in 1..Len(tbl) : tbl[i].name = tbl[j].name => i = j

\* no row has been deleted: every create drew three UUIDs and left one row
OnlyCreates == nuuid = 3 * Len(rows)

\* C1: after POST /event answered 201, a lookup by the id carried in the
\* response's event succeeds and returns that event.
C1_LookupByCreatedId ==
    (resp.op = "createEvent" /\ resp.status = StatusCreated) =>
        LET r == GetEventById(rows, resp.event.ID, FALSE) IN
        r.err = Nil /\ r.event = resp.event

\* C2: after creates with pairwise distinct titles and any number of earlier
\* list calls, the list answered by GET /events holds exactly one entry per
\* stored row, so it is as long as the table.
C2_ListHoldsEachRowOnce ==
    (resp.op = "getEvents" /\ resp.status = StatusOK
       /\ OnlyCreates /\ DistinctTitles(rows)) =>
        /\ Len(resp.events) = Len(rows)
        /\ \A i \in 1..Len(rows) :
             Cardinality({j \in 1..Len(resp.events) :
                            resp.events[j].Title = rows[i].name}) = 1

\* C3: whenever the table holds no rows, GET /events answers 200 with an
\* empty events value.
C3_EmptyStoreListsNothing ==
    (resp.op = "getEvents" /\ Len(rows) = 0) =>
        resp.status = StatusOK /\ Len(resp.events) = 0

\* C4: GET /events/:id answers 302 with the stored row exactly when a row
\* with that id exists; otherwise it answers 404 with a non-empty error, and
\* GetEventById gives the not-found error and the zero Event for every id
\* that has no row.
C4_GetEventFoundIffStored ==
    /\ resp.op = "getEvent" =>
         IF HasId(rows, resp.id)
         THEN /\ resp.status = StatusFound
              /\ resp.keys = {"event"}
              /\ \E i \in 1..Len(rows) :
                   rows[i].id = resp.id /\ SameAsRow(resp.event, rows[i])
         ELSE /\ resp.status = StatusNotFound
              /\ "error" \in resp.keys
              /\ resp.error # Nil /\ resp.error # ""
    /\ \A id \in ReqIds :
         ~HasId(rows, id) =>
             /\ GetEventById(rows, id, FALSE).err # Nil
             /\ GetEventById(rows, id, FALSE).event = ZeroEvent

C4_Witness ==
    /\ resp.op = "getEvent" /\ resp.status = StatusFound
    /\ Len(rows) = 2 /\ resp.id = rows[2].id
    /\ resp.event.Title = "b" /\ rows[1].name = "a"

\* C5: after PUT /events/:id answered 200, a re-fetch by the same id gives
\* the same id and exactly the title, description, location and date_time
\* of the request.
C5_UpdateThenRefetch ==
    (resp.op = "updateEvent" /\ resp.status = StatusOK) =>
        LET r == GetEventById(rows, resp.id, FALSE) IN
        /\ r.err = Nil
        /\ r.event.ID = resp.id
        /\ r.event.Title = resp.body.fields.Title
        /\ r.event.Description = resp.body.fields.Description
        /\ r.event.Location = resp.body.fields.Location
        /\ r.event.DateTime = resp.body.fields.DateTime

C5_Witness ==
    /\ resp.op = "updateEvent" /\ resp.status = StatusOK
    /\ Len(rows) = 2 /\ resp.id = rows[2].id
    /\ resp.body.fields.Title = "b" /\ rows[1].name = "a"
    /\ resp.body.fields.ID # "" /\ resp.body.fields.ID # resp.id

C6_DeleteStep ==
    (resp'.op = "deleteEvent" /\ resp'.status = StatusOK) =>
        /\ HasId(rows, resp'.id)
        /\ GetEventById(rows', resp'.id, FALSE).err # Nil
        /\ CountId(rows', resp'.id) = 0
        /\ rows' = SelectSeq(rows, LAMBDA r : r.id # resp'.id)

\* C6: a DELETE /events/:id answered 200 removes the row of an existing id:
\* afterwards a re-fetch by that id is not found and no row has that id,
\* and every other row is still there, unchanged.
C6_DeleteRemovesOnlyThatRow == [][C6_DeleteStep]_vars

C6_Witness ==
    /\ resp.op = "deleteEvent" /\ resp.status = StatusOK
    /\ Len(rows) = 1 /\ nuuid = MaxUuid

C7_MissingIdStep ==
    (resp'.op \in {"deleteEvent", "updateEvent"} /\ ~HasId(rows, resp'.id)) =>
        /\ resp'.status = StatusNotFound
        /\ rows' = rows

\* C7: DELETE or PUT on an id that has no row answers 404 and leaves the
\* table as it was.
C7_MissingIdChangesNothing == [][C7_MissingIdStep]_vars

C7_Witness ==
    /\ resp.op = "updateEvent" /\ resp.status = StatusNotFound
    /\ ~LacksField(resp.body.fields)
    /\ Len(rows) = 2

C8_LackingFieldStep ==
    (resp'.op = "createEvent" /\ LacksField(resp'.body.fields)) =>
        /\ resp'.status = StatusBadRequest
        /\ rows' = rows

\* C8: a POST /event whose body lacks a required field is answered 400 and
\* leaves the table as it was.
C8_LackingFieldInsertsNothing == [][C8_LackingFieldStep]_vars

C8_Witness ==
    /\ resp.op = "createEvent" /\ resp.status = StatusBadRequest
    /\ resp.body.fields.Location = "" /\ resp.body.fields.Title # ""
    /\ Len(rows) = 1

C9_UniqueIds ==
    \A i, j \in 1..Len(rows) : rows[i].id = rows[j].id => i = j

C9_IdStep ==
    \/ resp'.op = "setupTestDatabase"
    \/ IdsOf(rows') = IdsOf(rows)
    \/ \E id \in ReqIds :
         /\ HasId(rows, id)
         /\ IdsOf(rows') = SelectSeq(IdsOf(rows), LAMBDA x : x # id)
    \/ \E id \in ReqIds :
         /\ ~HasId(rows, id)
         /\ IdsOf(rows') = Append(IdsOf(rows), id)

\* C9: no two rows have the same id, and no request changes the id of a
\* row: serving a request keeps the ids, removes one, or adds one that no
\* row had.
C9_IdsUniqueAndStable == [](C9_UniqueIds) /\ [][C9_IdStep]_vars

C9_Witness ==
    /\ resp.op = "updateEvent" /\ resp.status = StatusOK
    /\ Len(rows) = 2 /\ resp.id = rows[1].id
    /\ resp.body.fields.ID = NewString(1)

\* C10: GetEventsByUserId(u) returns exactly the stored events of user u:
\* every returned event has user id u, and every stored row of u is returned
\* exactly once.
C10_EventsOfUser ==
    resp.op = "GetEventsByUserId" =>
        /\ resp.error = Nil
        /\ \A j \in 1..Len(resp.events) : resp.events[j].UserID = resp.id
        /\ \A i \in 1..Len(rows) :
             rows[i].user_id = resp.id =>
                 Cardinality({j \in 1..Len(resp.events) :
                                SameAsRow(resp.events[j], rows[i])}) = 1
        /\ Len(resp.events) =
             Cardinality({i \in 1..Len(rows) : rows[i].user_id = resp.id})

C10_Witness ==
    /\ resp.op = "GetEventsByUserId" /\ resp.id = "test-user-123"
    /\ Len(rows) = 3 /\ Len(resp.events) = 2
    /\ \E i \in 1..3 : rows[i].user_id = "other-user-456"

\* identifiers generated during the step
FreshIds == {NewString(n) : n \in (nuuid + 1)..nuuid'}

C11_CreateStep ==
    (resp'.op = "createEvent" /\ resp'.status = StatusCreated) =>
        /\ resp'.event.ID \in FreshIds
        /\ resp'.event.UserID \in FreshIds
        /\ resp'.event.ID # resp'.event.UserID
        /\ Len(rows') = Len(rows) + 1
        /\ SubSeq(rows', 1, Len(rows)) = rows
        /\ rows'[Len(rows')].user_id = resp'.event.UserID
        /\ rows'[Len(rows')].user_id # resp'.body.fields.UserID

\* C11: a POST /event answered 201 carries an id and a user id generated
\* during the request, whatever id and user id the body carries, and the
\* row it inserts has the user id of the response, never the body's.
C11_CreateAssignsFreshIds == [][C11_CreateStep]_vars

C11_Witness ==
    /\ resp.op = "createEvent" /\ resp.status = StatusCreated
    /\ resp.body.fields.ID = NewString(1)
    /\ resp.body.fields.UserID = "test-user-123"
    /\ resp.event.ID # NewString(1)
    /\ Len(rows) = 2 /\ rows[2].user_id = resp.event.UserID

HandlerOps ==
    {"getEvents", "getEvent", "createEvent", "updateEvent", "deleteEvent"}

\* a request was served: the condition of the store is the one it met
Served(op) == resp'.op = op /\ fault' = fault

C12_FailureStep ==
    /\ \A op \in HandlerOps :
         (Served(op) /\ resp'.status >= 400) =>
             "error" \in resp'.keys /\ resp'.error # Nil
    /\ (Served("createEvent") /\ LacksField(resp'.body.fields)) =>
           resp'.status = StatusBadRequest
    /\ (Served("createEvent") /\ ~LacksField(resp'.body.fields)
          /\ fault = "stmt") =>
           resp'.status = StatusBadRequest
    /\ (Served("getEvents") /\ fault = "stmt") =>
           resp'.status = StatusInternalServerError
    /\ (Served("getEvents") /\ fault = "scan" /\ rows # <<>>) =>
           resp'.status = StatusInternalServerError
    /\ (Served("updateEvent") /\ HasId(rows, resp'.id) /\ fault # "lookup"
          /\ LacksField(resp'.body.fields)) =>
           resp'.status = StatusBadRequest
    /\ (Served("updateEvent") /\ HasId(rows, resp'.id) /\ fault = "stmt"
          /\ ~LacksField(resp'.body.fields)) =>
           resp'.status = StatusInternalServerError
    /\ (Served("deleteEvent") /\ HasId(rows, resp'.id) /\ fault = "stmt") =>
           resp'.status = StatusInternalServerError

\* C12: every failure answer of a handler has an error key; a failed
\* statement is answered 400 by create and 500 by list, update and delete;
\* a body that fails binding is answered 400 by create and update.
C12_FailureStatus == [][C12_FailureStep]_vars

C12_Witness ==
    /\ resp.op = "deleteEvent" /\ resp.status = StatusInternalServerError
    /\ resp.error = StorageError /\ fault = "stmt"
    /\ Len(rows) = 2 /\ resp.id = rows[1].id

C13_SaveStep ==
    resp'.op = "Save" =>
        LET e == resp'.body.fields
            r == rows'[Len(rows')]
        IN  /\ resp'.error = Nil
            /\ Len(rows') = Len(rows) + 1
            /\ SubSeq(rows', 1, Len(rows)) = rows
            /\ r.id \in FreshIds
            /\ ~HasId(rows, r.id)
            /\ r.name = e.Title
            /\ r.description = e.Description
            /\ r.datetime = e.DateTime
            /\ r.user_id = e.UserID
            /\ r.location = e.Location

\* C13: Save inserts exactly one row, under an identifier generated during
\* the call that no row had, whatever the ID of the Event; its other columns
\* are the Event's title, description, date_time, user id and location, and
\* the rows that were there are unchanged.
C13_SaveInsertsOneRow == [][C13_SaveStep]_vars

C13_Witness ==
    /\ resp.op = "Save" /\ resp.error = Nil
    /\ resp.body.fields.ID = NewString(1)
    /\ Len(rows) = 3 /\ rows[3].id # NewString(1) /\ rows[3].name = "b"
    /\ rows[1].id = NewString(1)

C14_ListStep ==
    /\ Len(events') >= Len(events)
    /\ SubSeq(events', 1, Len(events)) = events
    /\ (resp'.op = "getEvents" /\ resp'.status = StatusOK) =>
           /\ events' = resp'.events
           /\ Len(resp'.events) = Len(events) + Len(rows)
           /\ \A j \in 1..Len(rows) :
                SameAsRow(resp'.events[Len(events) + j], rows[j])

BothExecuted(p, d) ==
    /\ reqs[p].op = "updateEvent" /\ reqs[d].op = "deleteEvent"
    /\ reqs[p].id = reqs[d].id
    /\ Executed(p) /\ Executed(d)

UpdatedRowExists(p) ==
    \E i \in 1..Len(rows) :
        /\ rows[i].id = reqs[p].id
        /\ rows[i].name = reqs[p].event.Title
        /\ rows[i].description = reqs[p].event.Description
        /\ rows[i].location = reqs[p].event.Location
        /\ rows[i].datetime = reqs[p].event.DateTime

C16_UpdateStep ==
    resp'.op = "updateEvent" =>
        /\ ~HasId(rows, resp'.id) =>
               resp'.status = StatusNotFound /\ rows' = rows
        /\ (HasId(rows, resp'.id) /\ LacksField(resp'.body.fields)) =>
               resp'.status = StatusBadRequest /\ rows' = rows
        /\ resp'.status = StatusOK =>
               /\ HasId(rows, resp'.id)
               /\ resp'.event.ID = resp'.id
               /\ Len(rows') = Len(rows)
               /\ \A i \in 1..Len(rows) :
                    rows[i].id # resp'.id => rows'[i] = rows[i]

\* C16: PUT /events/:id looks the id up before it binds the body: an id
\* without a row is answered 404 whatever the body, a body that fails
\* binding on an existing id is answered 400 and changes no row, and the
\* update is made under the id that was looked up and on no other row.
C16_ExistenceBeforeBinding == [][C16_UpdateStep]_vars

C16_Witness ==
    /\ resp.op = "updateEvent" /\ resp.status = StatusNotFound
    /\ LacksField(resp.body.fields)
    /\ resp.id = NewString(1)
    /\ Len(rows) = 2

C17_UpdateFrameStep ==
    resp'.op = "updateEvent" =>
        /\ Len(rows') = Len(rows)
        /\ \A i \in 1..Len(rows) :
             /\ rows'[i].id = rows[i].id
             /\ rows'[i].user_id = rows[i].user_id
             /\ rows[i].id # resp'.id => rows'[i] = rows[i]

\* C17: PUT /events/:id leaves the id and the user id of the row it updates,
\* and every column of every other row, as they were, whatever id and user
\* id the body carries.
C17_UpdateWritesFourColumns == [][C17_UpdateFrameStep]_vars

C17_Witness ==
    /\ resp.op = "updateEvent" /\ resp.status = StatusOK
    /\ resp.body.fields.UserID = "test-user-123"
    /\ resp.body.fields.ID = NewString(1)
    /\ Len(rows) = 2 /\ resp.id = rows[1].id
    /\ rows[1].name = "b" /\ rows[1].user_id # "test-user-123"
    /\ rows[2].name = "a"

\* a row whose id is the empty string, as a table written by other means
\* may hold
EmptyIdRow ==
    [id |-> "", name |-> "a", description |-> "a", location |-> "a",
     datetime |-> "t1", user_id |-> ""]

C18_Folded ==
    \A id \in ReqIds \cup {""}, failed \in BOOLEAN,
       tbl \in {rows, <<EmptyIdRow>> \o rows} :
        LET r == GetEventById(tbl, id, failed) IN
        /\ r.err \in {Nil, NotFound(id)}
        /\ r.err # Nil => r.event = ZeroEvent
        /\ (failed \/ ~HasId(tbl, id) \/ id = "") => r.err = NotFound(id)
        /\ r.err = Nil => \E i \in 1..Len(tbl) : SameAsRow(r.event, tbl[i])

C18_LookupStep ==
    \A op \in {"getEvent", "updateEvent", "deleteEvent"} :
        Served(op) =>
            /\ (fault = "lookup" \/ ~HasId(rows, resp'.id)) =>
                   /\ resp'.status = StatusNotFound
                   /\ resp'.error = NotFound(resp'.id)
                   /\ rows' = rows
            /\ resp'.status = StatusInternalServerError =>
                   /\ op \in {"updateEvent", "deleteEvent"}
                   /\ HasId(rows, resp'.id)
                   /\ fault = "stmt"
                   /\ resp'.error = StorageError

\* C18: GetEventById answers every failure, a missing row, a fault of the
\* store or of the scan, or a row found with an empty id, with the same
\* not-found error naming the requested id; so the get, update and delete
\* handlers answer 404 for every lookup failure, and answer 500 only when
\* the update or delete statement fails after a successful lookup.
C18_LookupFailuresFolded == [](C18_Folded) /\ [][C18_LookupStep]_vars

C18_Witness ==
    /\ resp.op = "deleteEvent" /\ resp.status = StatusNotFound
    /\ fault = "lookup"
    /\ HasId(rows, resp.id)
    /\ resp.error = NotFound(resp.id)

\* the same read request is served twice in a row: nothing was served in
\* between, and a read writes no row, so both meet the same table
C19_SameReadTwice ==
    /\ resp.op \in {"getEvents", "getEvent"}
    /\ resp'.op = resp.op
    /\ resp'.id = resp.id
    /\ rows' = rows

C19_StatelessStep ==
    C19_SameReadTwice =>
        /\ resp'.status = resp.status
        /\ resp'.keys = resp.keys
        /\ resp'.error = resp.error
        /\ resp'.event = resp.event
        /\ resp'.events = resp.events

\* C19: a handler's answer depends on the request and on the table only:
\* the same read request served twice against the same table gets the same
\* status and body, whatever was served before.
C19_HandlersStateless == [][C19_StatelessStep]_vars

C20_Initialized ==
    /\ pc \in {"initialized", "built", "registered", "serving"} =>
           db = "ready"
    /\ resp.op # "none" => db = "ready"
    /\ (pc = "exited" /\ db # "ready") => resp.op = "none"

C20_MainStep ==
    /\ (pc' # pc /\ pc' = "initialized") => pc = "start"
    /\ (pc' # pc /\ pc' = "built") => pc = "initialized"
    /\ (pc' # pc /\ pc' = "registered") => pc = "built"
    /\ (pc' # pc /\ pc' = "serving") => pc = "registered"
    /\ (pc = "start" /\ db' # "ready") => pc' = "exited"
    /\ resp' # resp => pc = "serving" /\ db = "ready"
    /\ pc = "exited" => pc' = "exited" /\ resp' = resp /\ rows' = rows

\* C20: main opens the store and ensures the events table, then builds the
\* server, registers the routes and listens, in that order, so a request is
\* only ever served over an initialized store; when opening the store or
\* creating the table fails, the process ends and serves no request.
C20_BootstrapOrder == [](C20_Initialized) /\ [][C20_MainStep]_vars

C20_Witness ==
    /\ pc = "serving" /\ db = "ready"
    /\ resp.op = "getEvent" /\ resp.status = StatusFound
    /\ Len(rows) = 1


\* a step of Cleanup: the test gives up its *TestDB
C21_CleanupStep == tdb # NoTestDB /\ tdb' = NoTestDB

\* C21: whatever db.DB held before SetupTestDatabase, nil included, Cleanup
\* leaves db.DB equal to that value and the isolated store closed, so db.DB
\* no longer is the closed isolated store
C21_CleanupRestoresHandle ==
    [][C21_CleanupStep =>
         /\ db' = tdb.OriginalDB
         /\ tdb.DB \in closed'
         /\ db' # tdb.DB]_vars

\* the delete statement for id has executed without error; its answer is
\* not written yet
DeleteExecuted(id) ==
    \E d \in Slots :
        /\ reqs[d].op = "deleteEvent"
        /\ reqs[d].event.ID = id
        /\ reqs[d].pc = "respond"
        /\ reqs[d].status = StatusOK

\* C22: once the delete statement for an id has executed, no later state
\* holds a row with that id, whatever creates, updates and deletes are
\* interleaved with it and after it
C22_DeletionPermanent ==
    \A id \in Uuids : [](DeleteExecuted(id) => [](~HasId(rows, id)))

\* a PUT whose lookup preceded the delete ran its statement after it, and
\* an event has been created since
C22_Witness ==
    \E p, d \in Slots :
        /\ BothExecuted(p, d)
        /\ d \in reqs[p].after
        /\ ~HasId(rows, reqs[d].id)
        /\ Len(rows) = 1
        /\ HasId(rows, NewString(6))

\* two DELETE requests for one id are in service and both are about to be
\* answered
BothDeletes(s, t) ==
    /\ s # t
    /\ reqs[s].op = "deleteEvent" /\ reqs[t].op = "deleteEvent"
    /\ reqs[s].id = reqs[t].id
    /\ reqs[s].pc = "respond" /\ reqs[t].pc = "respond"

\* C23: of the concurrent DELETE requests for one existing id at most one is
\* answered 200, and every other one is answered 404
C23_AtMostOneDeleted ==
    \A s, t \in Slots :
        BothDeletes(s, t) /\ reqs[s].status = StatusOK =>
            reqs[t].status = StatusNotFound

\* every GetAllEvents call has returned
AllDone == \A s \in Slots : calls[s].pc = "done"

\* the rows read by the calls of the slots S
RECURSIVE RowsRead(_)
RowsRead(S) ==
    IF S = {} THEN 0
    ELSE LET s == CHOOSE x \in S : TRUE
         IN  calls[s].n + RowsRead(S \ {s})

\* C24: under any interleaving of concurrent GetAllEvents calls the length
\* of the process-wide slice never decreases, and once every call has
\* returned it is the sum of the rows the calls read
C24_NoAppendLost ==
    [][/\ Len(events') >= Len(events)
       /\ AllDone' => Len(events') = RowsRead(Slots)']_vars
====
